---- MODULE Spec2Model ----
(***************************************************************************)
(* A model of spoodle_client.py: the Animation Namer                       *)
(* (name_raw_sliced_sprites) and the Animator frame timer.                 *)
(*                                                                         *)
(* Python values are encoded as follows.                                   *)
(*   - a list is a sequence; Python index k is TLA+ index k + 1;           *)
(*   - an optional value (X or None) is a sequence of length at most one:  *)
(*     <<>> is None and <<v>> is the value v;                              *)
(*   - a dict is a function whose domain is its key set;                   *)
(*   - an image (a pygame Surface) is the number of its position in the    *)
(*     list slice_sprites returned, so distinct images are distinct.       *)
(***************************************************************************)
EXTENDS Integers, Sequences, FiniteSets, TLC

\* ------------------------------------------------------------------ bounds
\* Largest number of images handed to the Namer.
MaxImages == 6
\* Largest number of animation names handed to the Namer.
MaxNames == 2
\* Largest frames-per-row handed to the Namer.
MaxWidth == 3
\* Largest number of entries of a supplied spritecounts list.
MaxCounts == 2
\* Largest number of update calls explored since the animation last started.
MaxUpdates == 4

\* Largest width and height, in pixels, of a spritesheet handed to the Slicer.
MaxSheet == 4
\* Largest width and height, in pixels, of the sprite size handed to it.
MaxCell == 2
\* Largest padding handed to it.
MaxPadding == 1

\* Largest number of updates of the player explored.
MaxTicks == 2

\* --------------------------------------------------------------- constants
\* Animator.__init__'s default framerate.
DefaultFramerate == 13
\* Player.__init__'s speed, in pixels per second.
PlayerSpeed == 250

\* Animation names a caller may use; "z" is never a key of an AnimationSet.
NameSet == {"x", "y"}
UnknownName == "z"

\* The None value, as an optional.
None == <<>>
Some(v) == <<v>>

\* Exceptions the code raises (the message of each ValueError).
NoError == "no error"
ErrEmptyAnimation == "all animations must have at least one frame"
ErrUnknownAnimation == "animation must be one of the animation names"
ErrTooManyNames == "Cannot have more names than rows of images."
ErrCountsExceedWidth == "spritecounts cannot exceed the width of a row"
ErrFewerCounts == "Cannot have fewer spritecount values than names"
ErrZeroDivision == "ZeroDivisionError"

\* The list of the first n images of a sliced spritesheet.
ImageList(n) == [k \in 1..n |-> k - 1]

\* Sequences over S of length at most n.
SeqUpTo(S, n) == UNION {[1..k -> S] : k \in 0..n}

Min(a, b) == IF a < b THEN a ELSE b
Max(a, b) == IF a > b THEN a ELSE b

\* ------------------------------------------------------------ Python lists
\* Python's s[start:stop] for a list s and integers start, stop: a negative
\* index counts from the end, and both are clamped to [0, len(s)].
PySlice(s, start, stop) ==
    LET n == Len(s)
        lo == IF start < 0 THEN Max(start + n, 0) ELSE Min(start, n)
        hi == IF stop < 0 THEN Max(stop + n, 0) ELSE Min(stop, n)
    IN  SubSeq(s, lo + 1, hi)

\* Python's [v] * n.
Repeat(v, n) == [k \in 1..Max(n, 0) |-> v]

\* AllExceed with any in place of all.
AnyExceed(spritecounts, width) ==
    \E k \in 1..Len(spritecounts) : spritecounts[k] > width

\* Python's all(map(lambda x: x > width, spritecounts)).
AllExceed(spritecounts, width) ==
    \A k \in 1..Len(spritecounts) : spritecounts[k] > width

\* ------------------------------------------------------------------- Namer
\* AnimationsAfter with the slice's stop taken as spritecounts[i] alone.
RECURSIVE AnimationsPacked(_, _, _, _, _)
AnimationsPacked(images, names, width, spritecounts, n) ==
    IF n = 0 THEN [k \in {} |-> <<>>]
    ELSE LET prev == AnimationsPacked(images, names, width, spritecounts, n - 1)
             i == n - 1
             name == names[i + 1]
             frames == PySlice(images, i * width, spritecounts[i + 1])
         IN  [k \in (DOMAIN prev) \cup {name} |->
                 IF k = name THEN frames ELSE prev[k]]

\* AnimationsAfter storing no key for a row of no frames.
RECURSIVE AnimationsSkippingEmpty(_, _, _, _, _)
AnimationsSkippingEmpty(images, names, width, spritecounts, n) ==
    IF n = 0 THEN [k \in {} |-> <<>>]
    ELSE LET prev == AnimationsSkippingEmpty(images, names, width,
                                             spritecounts, n - 1)
             i == n - 1
             name == names[i + 1]
             frames == PySlice(images, i * width, (i * width) + spritecounts[i + 1])
         IN  IF Len(frames) = 0 THEN prev
             ELSE [k \in (DOMAIN prev) \cup {name} |->
                      IF k = name THEN frames ELSE prev[k]]

\* The dict built by the loop of name_raw_sliced_sprites after its first n
\* iterations: iteration i (from 0) stores images[i*width : i*width +
\* spritecounts[i]] under names[i], replacing what that key held.
RECURSIVE AnimationsAfter(_, _, _, _, _)
AnimationsAfter(images, names, width, spritecounts, n) ==
    IF n = 0 THEN [k \in {} |-> <<>>]
    ELSE LET prev == AnimationsAfter(images, names, width, spritecounts, n - 1)
             i == n - 1
             name == names[i + 1]
             frames == PySlice(images, i * width, (i * width) + spritecounts[i + 1])
         IN  [k \in (DOMAIN prev) \cup {name} |->
                 IF k = name THEN frames ELSE prev[k]]

\* TooManyNames with the names compared to the images, not to the rows.
TooManyNamesForImages(images, names, width) == Len(names) > Len(images)

\* name_raw_sliced_sprites, line 263: more names than rows of images.
TooManyNames(images, names, width) == Len(names) > Len(images) \div width

\* name_raw_sliced_sprites(images, names, width, spritecounts): the
\* exception it raises (NoError when it returns) and the dict it returns.
\* spritecounts is optional: None, or Some(list of integers).
name_raw_sliced_sprites(images, names, width, spritecounts) ==
    LET NoAnimations == [k \in {} |-> <<>>]
    IN  IF TooManyNames(images, names, width)
        THEN [raised |-> ErrTooManyNames, animations |-> NoAnimations]
        ELSE IF spritecounts = None
        THEN [raised |-> NoError,
              animations |-> AnimationsAfter(images, names, width,
                                 Repeat(width, Len(names)), Len(names))]
        ELSE IF AllExceed(spritecounts[1], width)
        THEN [raised |-> ErrCountsExceedWidth, animations |-> NoAnimations]
        ELSE IF Len(spritecounts[1]) < Len(names)
        THEN [raised |-> ErrFewerCounts, animations |-> NoAnimations]
        ELSE [raised |-> NoError,
              animations |-> AnimationsAfter(images, names, width,
                                 spritecounts[1], Len(names))]

\* ------------------------------------------------------------------ Slicer
\* Python's list(range(start, stop, step)) for step > 0.
PyRange(start, stop, step) ==
    IF stop <= start THEN <<>>
    ELSE [k \in 1..(((stop - start - 1) \div step) + 1) |-> start + (k - 1) * step]

\* pygame's Rect(left, top, w, h) after Surface.set_clip cropped it to a
\* surface of sheet_w x sheet_h pixels, for a top-left corner on the surface.
ClipRect(left, top, w, h, sheet_w, sheet_h) ==
    [left |-> left, top |-> top,
     w |-> Min(w, sheet_w - left), h |-> Min(h, sheet_h - top)]

\* slice_sprites on a spritesheet of sheet_w x sheet_h pixels: the list of
\* images it returns, each the rectangle of the sheet it shows and its size
\* in pixels. Line 240 builds Rect(col, row, height, width).
slice_sprites(sheet_w, sheet_h, size, resize_to, starting_coords, padding) ==
    LET x_coord == starting_coords[1]
        y_coord == starting_coords[2]
        width_ == size[1]
        height_ == size[2]
        rows == PyRange(y_coord, sheet_h, height_ + padding)
        cols == PyRange(x_coord, sheet_w, width_ + padding)
        nc == Len(cols)
        Image(row, col) ==
            LET clip == ClipRect(col, row, height_, width_, sheet_w, sheet_h)
            IN  [rect |-> clip,
                 size |-> IF resize_to # None THEN resize_to[1]
                          ELSE <<clip.w, clip.h>>]
    IN  [k \in 1..(Len(rows) * nc) |->
            Image(rows[((k - 1) \div nc) + 1], cols[((k - 1) % nc) + 1])]

\* ------------------------------------------------------------------- state
VARIABLES
    \* the arguments Game.load_animation_from_config passes to the Namer
    images, names, width, spritecounts,
    \* the framerate the Animator is constructed with
    framerate,
    \* what the Namer did: None before the call, then Some(its outcome)
    named,
    \* the Animator object: "absent" before construction, "live" once
    \* __init__ returned, "failed" when __init__ raised
    animator,
    \* the Animator's fields
    animations, current_animation, playing, current_frame, time_transpired,
    miliseconds_per_frame,
    \* the last call made on the Animator: its name, its argument, the
    \* exception it raised and the value it returned
    last,
    \* the delta_time of every update call made since the playing animation
    \* was last started (line 137), in order
    history,
    \* the spritesheet and the arguments handed to slice_sprites
    sheet,
    \* what slice_sprites returned: None before the call, then Some(images)
    sliced,
    \* the Player: its rect's corner, its facing and the image it displays
    rect, facing, image,
    \* which string object current_animation holds: the literal of Game.main
    \* ("main") or a literal of Player.update ("update")
    stored_by,
    \* whether this build makes the equal literals "walk_left" of Game.main
    \* and of Player.update one object
    interned,
    \* the last step, when it was an update of the player: the keys held, the
    \* time_delta and the state it started from
    tick,
    \* the number of updates of the player made so far
    ticks

namerVars == <<images, names, width, spritecounts, framerate, named>>
fieldVars == <<animations, current_animation, playing, current_frame,
               time_transpired, miliseconds_per_frame>>
vars == <<images, names, width, spritecounts, framerate, named, animator,
          animations, current_animation, playing, current_frame,
          time_transpired, miliseconds_per_frame, last, history,
          sheet, sliced, rect, facing, image, stored_by, interned, tick,
          ticks>>
slicerVars == <<sheet, sliced>>
playerVars == <<rect, facing, image, stored_by, interned, tick, ticks>>

\* The Animator's fields a call may change, as a record.
Fields ==
    [current_animation |-> current_animation, playing |-> playing,
     current_frame |-> current_frame, time_transpired |-> time_transpired]

\* A call's record: its name, its argument, the exception it raised
\* (NoError when it returned), the value it returned (None when it returns
\* nothing) and the fields as they were when it was made.
Call(op, arg, raised, ret) ==
    [op |-> op, arg |-> arg, raised |-> raised, ret |-> ret, before |-> Fields]

\* Python's truth value of self.playing: None and the empty list are false.
Truthy(p) == p # None /\ Len(p[1]) > 0

\* No Animator exists yet: its fields hold nothing.
NoAnimator ==
    /\ animator = "absent"
    /\ animations = [k \in {} |-> <<>>]
    /\ current_animation = None
    /\ playing = None
    /\ current_frame = 0
    /\ time_transpired = 0
    /\ miliseconds_per_frame = 0
    /\ last = Call("none", None, NoError, None)
    /\ history = <<>>

\* -------------------------------------------------------------- operations
\* Game.load_animation_from_config's call of name_raw_sliced_sprites.
NameSprites ==
    /\ named = None
    /\ named' = Some(name_raw_sliced_sprites(images, names, width, spritecounts))
    /\ UNCHANGED <<images, names, width, spritecounts, framerate, animator,
                   fieldVars, last, history, slicerVars, playerVars>>

\* AnyEmpty with all in place of any.
AnyEmptyAll(anims) ==
    DOMAIN anims # {} /\ \A k \in DOMAIN anims : Len(anims[k]) = 0

\* Animator.__init__, line 105: some animation has no frame.
AnyEmpty(anims) == \E k \in DOMAIN anims : Len(anims[k]) = 0

\* Animator.__init__(anims, fr): raises when some animation has no frame,
\* and otherwise sets every field.
AnimatorInit(anims, fr) ==
    IF AnyEmpty(anims)
    THEN /\ animator' = "failed"
         /\ last' = Call("__init__", None, ErrEmptyAnimation, None)
         /\ UNCHANGED fieldVars
    ELSE /\ animator' = "live"
         /\ animations' = anims
         /\ current_animation' = None
         /\ playing' = None
         /\ current_frame' = 0
         /\ time_transpired' = 0
         /\ miliseconds_per_frame' = 1000 \div fr
         /\ last' = Call("__init__", None, NoError, None)

\* Game.main's Animator(self.load_animation_from_config("player")): runs
\* only when the Namer returned a dict.
Construct ==
    /\ animator = "absent"
    /\ named # None
    /\ named[1].raised = NoError
    /\ AnimatorInit(named[1].animations, framerate)
    /\ UNCHANGED <<namerVars, history, slicerVars, playerVars>>

\* StopPlaying that also resets current_frame and time_transpired.
StopPlayingClears ==
    /\ playing' = None
    /\ current_animation' = None
    /\ current_frame' = 0
    /\ time_transpired' = 0
    /\ last' = Call("play", None, NoError, None)
    /\ UNCHANGED <<animations, miliseconds_per_frame>>

\* Animator.play, lines 127-129: play(None) stops playing.
StopPlaying ==
    /\ playing' = None
    /\ current_animation' = None
    /\ last' = Call("play", None, NoError, None)
    /\ UNCHANGED <<animations, current_frame, time_transpired,
                   miliseconds_per_frame>>

\* RaiseUnknown reached after the selection was cleared.
RaiseUnknownStops(animation) ==
    /\ playing' = None
    /\ current_animation' = None
    /\ last' = Call("play", Some(animation), ErrUnknownAnimation, None)
    /\ UNCHANGED <<animations, current_frame, time_transpired,
                   miliseconds_per_frame>>

\* Animator.play, lines 130-131: a name that is no key of self.animations.
RaiseUnknown(animation) ==
    /\ last' = Call("play", Some(animation), ErrUnknownAnimation, None)
    /\ UNCHANGED fieldVars

\* SetAnimation without line 137's reset.
SetAnimationKeepsPosition(animation, same) ==
    /\ IF ~same
       THEN /\ current_animation' = Some(animation)
            /\ playing' = Some(animations[animation])
            /\ UNCHANGED <<current_frame, time_transpired>>
       ELSE UNCHANGED <<current_animation, playing, current_frame,
                        time_transpired>>
    /\ last' = Call("play", Some(animation), NoError, None)
    /\ UNCHANGED <<animations, miliseconds_per_frame>>

\* Animator.play, lines 134-137. same is the outcome of the identity test
\* "animation is self.current_animation": the animation is (re)started
\* unless the argument is the very object stored by the previous play.
SetAnimation(animation, same) ==
    /\ IF ~same
       THEN /\ current_animation' = Some(animation)
            /\ playing' = Some(animations[animation])
            /\ current_frame' = 0
            /\ time_transpired' = 0
       ELSE UNCHANGED <<current_animation, playing, current_frame,
                        time_transpired>>
    /\ last' = Call("play", Some(animation), NoError, None)
    /\ UNCHANGED <<animations, miliseconds_per_frame>>

\* Animator.play(animation): animation is None or Some(name).
play(animation, same) ==
    IF animation = None THEN StopPlaying
    ELSE IF animation[1] \notin DOMAIN animations THEN RaiseUnknown(animation[1])
    ELSE SetAnimation(animation[1], same)

\* UpdateIdle with line 150's += made before the test of line 147.
UpdateIdleAccumulates(delta_time) ==
    /\ time_transpired' = time_transpired + delta_time
    /\ last' = Call("update", Some(delta_time), NoError, None)
    /\ UNCHANGED <<animations, current_animation, playing, current_frame,
                   miliseconds_per_frame>>

\* Animator.update, lines 147-148: nothing is playing.
UpdateIdle(delta_time) ==
    /\ last' = Call("update", Some(delta_time), NoError, None)
    /\ UNCHANGED fieldVars

\* AdvanceFrame stepping one frame however much time accumulated.
AdvanceOneFrame(frame, time, period, length) == (frame + 1) % length

\* Animator.update, lines 152 and 154: the frame after time milliseconds
\* have accumulated, time >= period > 0.
AdvanceFrame(frame, time, period, length) ==
    (frame + (time \div period)) % length

\* Animator.update, lines 150-156: an animation is playing.
UpdatePlaying(delta_time) ==
    LET t == time_transpired + delta_time
    IN  IF t >= miliseconds_per_frame
        THEN IF miliseconds_per_frame = 0
             THEN \* time_transpired // 0 raises after the += ran
                  /\ time_transpired' = t
                  /\ last' = Call("update", Some(delta_time),
                                  ErrZeroDivision, None)
                  /\ UNCHANGED <<animations, current_animation, playing,
                                 current_frame, miliseconds_per_frame>>
             ELSE LET frame == AdvanceFrame(current_frame, t,
                                   miliseconds_per_frame, Len(playing[1]))
                  IN  /\ time_transpired' = t % miliseconds_per_frame
                      /\ current_frame' = frame
                      /\ last' = Call("update", Some(delta_time), NoError,
                                      Some(playing[1][frame + 1]))
                      /\ UNCHANGED <<animations, current_animation, playing,
                                     miliseconds_per_frame>>
        ELSE /\ time_transpired' = t
             /\ last' = Call("update", Some(delta_time), NoError,
                             Some(playing[1][current_frame + 1]))
             /\ UNCHANGED <<animations, current_animation, playing,
                            current_frame, miliseconds_per_frame>>

\* Animator.update(delta_time).
update(delta_time) ==
    IF ~Truthy(playing) THEN UpdateIdle(delta_time)
    ELSE UpdatePlaying(delta_time)

\* ------------------------------------------------------------ game objects
\* The image an object displays: the class's own Surface (line 61), a frame
\* of the spritesheet, or None.
ClassImage == [surface |-> "Player.image", frame |-> 0]
FrameImage(f) == [surface |-> "frame", frame |-> f]
NoImage == [surface |-> "None", frame |-> 0]

\* The last step was no update of a game object.
NoTick ==
    [op |-> "none", keys |-> {}, time_delta |-> 0, previous_keys |-> None,
     raised |-> NoError,
     before |-> [rect |-> [x |-> 0, y |-> 0], facing |-> "SOUTH",
                 image |-> ClassImage,
                 fields |-> [current_animation |-> None, playing |-> None,
                             current_frame |-> 0, time_transpired |-> 0]]]

\* The record of an update of a game object made now: the method called,
\* the keys held, the time_delta, the keys of the update made just before
\* (None when the step before was no Player.update), the exception raised
\* and the state the call started from.
Tick(op, keys_pressed, time_delta, raised) ==
    [op |-> op, keys |-> keys_pressed, time_delta |-> time_delta,
     previous_keys |-> IF tick.op = "Player.update" THEN Some(tick.keys)
                       ELSE None,
     raised |-> raised,
     before |-> [rect |-> rect, facing |-> facing, image |-> image,
                 fields |-> Fields]]

\* Game.main, line 203, and Player.__init__: the player spawned at (150, 150).
NewPlayer ==
    /\ rect = [x |-> 150, y |-> 150]
    /\ facing = "SOUTH"
    /\ image = ClassImage
    /\ stored_by = "none"
    /\ tick = NoTick
    /\ ticks = 0

\* playOn without line 134's test.
playOnAlwaysRestarts(a, animation, same) ==
    IF animation \notin DOMAIN animations
    THEN [a |-> a, raised |-> ErrUnknownAnimation]
    ELSE [a |-> [current_animation |-> Some(animation),
                 playing |-> Some(animations[animation]),
                 current_frame |-> 0, time_transpired |-> 0],
          raised |-> NoError]

\* Animator.play(animation) on the fields a, for a name: the fields after
\* the call and the exception raised. same is the outcome of line 134's
\* identity test.
playOn(a, animation, same) ==
    IF animation \notin DOMAIN animations
    THEN [a |-> a, raised |-> ErrUnknownAnimation]
    ELSE IF ~same
    THEN [a |-> [current_animation |-> Some(animation),
                 playing |-> Some(animations[animation]),
                 current_frame |-> 0, time_transpired |-> 0],
          raised |-> NoError]
    ELSE [a |-> a, raised |-> NoError]

\* Animator.update(delta_time) on the fields a: the fields after the call,
\* the value returned and the exception raised.
updateOn(a, delta_time) ==
    IF ~Truthy(a.playing)
    THEN [a |-> a, ret |-> None, raised |-> NoError]
    ELSE LET t == a.time_transpired + delta_time
         IN  IF t >= miliseconds_per_frame
             THEN IF miliseconds_per_frame = 0
                  THEN [a |-> [a EXCEPT !.time_transpired = t],
                        ret |-> None, raised |-> ErrZeroDivision]
                  ELSE LET frame == AdvanceFrame(a.current_frame, t,
                                        miliseconds_per_frame, Len(a.playing[1]))
                       IN  [a |-> [a EXCEPT
                                      !.time_transpired = t % miliseconds_per_frame,
                                      !.current_frame = frame],
                            ret |-> Some(a.playing[1][frame + 1]),
                            raised |-> NoError]
             ELSE [a |-> [a EXCEPT !.time_transpired = t],
                   ret |-> Some(a.playing[1][a.current_frame + 1]),
                   raised |-> NoError]

\* The image a value returned by Animator.update is displayed as.
Shown(ret) == IF ret = None THEN NoImage ELSE FrameImage(ret[1])

\* GameObject.update without line 55's test of self.animator.playing.
GameObjectUpdateUntested(attached, a, img, time_delta) ==
    IF attached
    THEN LET u == updateOn(a, time_delta)
         IN  [a |-> u.a,
              image |-> IF u.raised = NoError THEN Shown(u.ret) ELSE img,
              raised |-> u.raised]
    ELSE [a |-> a, image |-> img, raised |-> NoError]

\* GameObject.update(gamestate) on an object displaying img, whose animator
\* (when attached) has the fields a: the fields and the image after the
\* call, and the exception raised.
GameObjectUpdate(attached, a, img, time_delta) ==
    IF attached /\ Truthy(a.playing)
    THEN LET u == updateOn(a, time_delta)
         IN  [a |-> u.a,
              image |-> IF u.raised = NoError THEN Shown(u.ret) ELSE img,
              raised |-> u.raised]
    ELSE [a |-> a, image |-> img, raised |-> NoError]

\* MovementDelta rounded to the nearest pixel, halves up.
MovementDeltaRounded(speed, time_delta) ==
    ((2 * speed * time_delta) + 1000) \div 2000

\* Player.update, line 75.
MovementDelta(speed, time_delta) == (speed * time_delta) \div 1000

\* The keys Player.update tests and what each does: the change of the
\* rect's x and y per pixel moved, the facing and the animation played.
Keys == {"a", "d", "w", "s"}
KeyEffect(key) ==
    CASE key = "a" -> [dx |-> -1, dy |-> 0, facing |-> "WEST",
                       animation |-> "walk_left"]
      [] key = "d" -> [dx |-> 1, dy |-> 0, facing |-> "EAST",
                       animation |-> "walk_right"]
      [] key = "w" -> [dx |-> 0, dy |-> -1, facing |-> "NORTH",
                       animation |-> "walk_up"]
      [] key = "s" -> [dx |-> 0, dy |-> 1, facing |-> "SOUTH",
                       animation |-> "walk_down"]

\* The order East, North, West, South of the keys.
KeyOrderByDirection == <<"d", "w", "a", "s">>

\* The order in which Player.update tests the keys, lines 76, 80, 84, 88.
KeyOrder == <<"a", "d", "w", "s">>

\* Player.update, lines 76-91, after the first n tests of KeyOrder, from the
\* player state p = [rect, facing, a, stored_by, raised]: a held key moves
\* the rect, sets facing and plays its animation; an exception ends the call.
RECURSIVE AfterKeys(_, _, _, _)
AfterKeys(p, keys_pressed, movement_delta, n) ==
    IF n = 0 THEN p
    ELSE LET q == AfterKeys(p, keys_pressed, movement_delta, n - 1)
             e == KeyEffect(KeyOrder[n])
             same == /\ q.a.current_animation = Some(e.animation)
                     /\ (q.stored_by = "update" \/ interned)
             played == playOn(q.a, e.animation, same)
         IN  IF q.raised # NoError \/ KeyOrder[n] \notin keys_pressed THEN q
             ELSE [rect |-> [x |-> q.rect.x + (e.dx * movement_delta),
                             y |-> q.rect.y + (e.dy * movement_delta)],
                   facing |-> e.facing,
                   a |-> played.a,
                   stored_by |-> IF played.raised = NoError /\ ~same
                                 THEN "update" ELSE q.stored_by,
                   raised |-> played.raised]

\* Player.update(gamestate) with the keys keys_pressed held: the player
\* state and the image after the call.
PlayerUpdate(keys_pressed, time_delta) ==
    LET base == GameObjectUpdate(animator = "live", Fields, image, time_delta)
        p == [rect |-> rect, facing |-> facing, a |-> base.a,
              stored_by |-> stored_by, raised |-> base.raised]
    IN  [image |-> base.image,
         p |-> AfterKeys(p, keys_pressed,
                   MovementDelta(PlayerSpeed, time_delta), Len(KeyOrder))]

\* ------------------------------------------------------------------ inputs
\* Frame rates an Animator is constructed with: 10 gives a period of 100 ms,
\* the default 13 gives 76 ms, and 1001 gives 1000 // 1001 = 0 ms.
Framerates == {10, DefaultFramerate, 1001}

\* Values the clock's tick returns (milliseconds since the previous tick).
Deltas == {0, 40, 110, 250}

\* Arguments of play: None, a name of NameSet, or the unknown name.
PlayArgs == {None} \cup {Some(n) : n \in NameSet \cup {UnknownName}}

\* Spritesheets of two rows of four images: the counts of frames per row.
SheetCounts == {None, Some(<<4, 2>>), Some(<<1, 3>>), Some(<<2, 0>>)}

\* ----------------------------------------------------------------- actions
\* A call of play on the live Animator. The identity test of line 134 can
\* only succeed when the argument equals the stored name; an equal string
\* may or may not be the same object, so both outcomes are explored.
Play(animation, same) ==
    /\ animator = "live"
    /\ same => (animation # None /\ animation = current_animation)
    /\ play(animation, same)
    /\ history' = IF /\ animation # None
                     /\ animation[1] \in DOMAIN animations
                     /\ ~same
                  THEN <<>> ELSE history
    /\ UNCHANGED <<namerVars, animator, slicerVars, playerVars>>

\* A call of update on the live Animator.
Update(delta_time) ==
    /\ animator = "live"
    /\ Truthy(playing) => Len(history) < MaxUpdates
    /\ update(delta_time)
    /\ history' = IF Truthy(playing) THEN Append(history, delta_time)
                  ELSE history
    /\ UNCHANGED <<namerVars, animator, slicerVars, playerVars>>

\* Game.load_animation_from_config's call of slice_sprites.
SliceSprites ==
    /\ sliced = None
    /\ sliced' = Some(slice_sprites(sheet.w, sheet.h, sheet.size,
                          sheet.resize_to, sheet.starting_coords, sheet.padding))
    /\ UNCHANGED <<namerVars, animator, fieldVars, last, history, sheet,
                   playerVars>>

\* The fields of the Animator become those of the record a.
SetFields(a) ==
    /\ current_animation' = a.current_animation
    /\ playing' = a.playing
    /\ current_frame' = a.current_frame
    /\ time_transpired' = a.time_transpired
    /\ UNCHANGED <<animations, miliseconds_per_frame>>

\* Game.main, line 205: play("walk_left") on the player's Animator, made
\* before the game loop starts; nothing is playing yet, so line 134's
\* identity test fails.
StartWalk ==
    /\ animator = "live"
    /\ tick.raised = NoError
    /\ ticks = 0
    /\ current_animation = None
    /\ play(Some("walk_left"), FALSE)
    /\ stored_by' = IF "walk_left" \in DOMAIN animations
                    THEN "main" ELSE stored_by
    /\ tick' = NoTick
    /\ UNCHANGED <<namerVars, animator, history, slicerVars, rect, facing,
                   image, interned, ticks>>

\* A call of play(None) on the player's Animator.
StopWalk ==
    /\ animator = "live"
    /\ tick.raised = NoError
    /\ play(None, FALSE)
    /\ tick' = NoTick
    /\ UNCHANGED <<namerVars, animator, history, slicerVars, rect, facing,
                   image, stored_by, interned, ticks>>

\* GameObject.update on the object, with or without an Animator attached.
UpdateObject(time_delta) ==
    /\ animator \in {"absent", "live"}
    /\ tick.raised = NoError
    /\ ticks < MaxTicks
    /\ \E u \in {GameObjectUpdate(animator = "live", Fields, image, time_delta)} :
           /\ SetFields(u.a)
           /\ image' = u.image
           /\ tick' = Tick("GameObject.update", {}, time_delta, u.raised)
    /\ ticks' = ticks + 1
    /\ UNCHANGED <<namerVars, animator, last, history, slicerVars, rect,
                   facing, stored_by, interned>>

\* Game.main, line 214: Player.update on the player, whose Animator line 204
\* attached, with the keys keys_pressed held.
UpdatePlayer(keys_pressed, time_delta) ==
    /\ animator = "live"
    /\ tick.raised = NoError
    /\ ticks < MaxTicks
    /\ \E u \in {PlayerUpdate(keys_pressed, time_delta)} :
           /\ SetFields(u.p.a)
           /\ image' = u.image
           /\ rect' = u.p.rect
           /\ facing' = u.p.facing
           /\ stored_by' = u.p.stored_by
           /\ tick' = Tick("Player.update", keys_pressed, time_delta,
                           u.p.raised)
    /\ ticks' = ticks + 1
    /\ UNCHANGED <<namerVars, animator, last, history, slicerVars, interned>>

\* --------------------------------------------------------- specifications
\* A spritesheet of 8 x 2 pixels holding two rows of four 2 x 1 sprites; it
\* is not sliced in the specifications of the Namer and the Animator.
NoSlicer ==
    /\ sheet = [w |-> 8, h |-> 2, size |-> <<2, 1>>, resize_to |-> None,
                starting_coords |-> <<0, 0>>, padding |-> 0]
    /\ sliced = None

\* The Animator, built from a two-row spritesheet, then played and updated.
Init ==
    /\ images = ImageList(8)
    /\ names = <<"x", "y">>
    /\ width = 4
    /\ spritecounts \in SheetCounts
    /\ framerate \in Framerates
    /\ named = None
    /\ NoAnimator
    /\ NoSlicer
    /\ NewPlayer
    /\ interned = FALSE

Next ==
    \/ NameSprites
    \/ Construct
    \/ \E animation \in PlayArgs, same \in BOOLEAN : Play(animation, same)
    \/ \E delta_time \in Deltas : Update(delta_time)

Spec == Init /\ [][Next]_vars

\* The Namer on every input within the bounds, and the construction of an
\* Animator from the dict it returns.
InitNamer ==
    /\ images \in {ImageList(n) : n \in 0..MaxImages}
    /\ names \in SeqUpTo(NameSet, MaxNames)
    /\ width \in 1..MaxWidth
    /\ spritecounts \in {None} \cup
           {Some(c) : c \in SeqUpTo((-1)..(MaxWidth + 1), MaxCounts)}
    /\ framerate = DefaultFramerate
    /\ named = None
    /\ NoAnimator
    /\ NoSlicer
    /\ NewPlayer
    /\ interned = FALSE

NextNamer ==
    \/ NameSprites
    \/ Construct

SpecNamer == InitNamer /\ [][NextNamer]_vars

\* The Slicer on every spritesheet and argument within the bounds.
InitSlicer ==
    /\ sheet \in [w : 1..MaxSheet, h : 1..MaxSheet,
                  size : (1..MaxCell) \X (1..MaxCell),
                  resize_to : {None, Some(<<2, 2>>)},
                  starting_coords : (0..1) \X (0..1),
                  padding : 0..MaxPadding]
    /\ sliced = None
    /\ images = <<>>
    /\ names = <<>>
    /\ width = 1
    /\ spritecounts = None
    /\ framerate = DefaultFramerate
    /\ named = None
    /\ NoAnimator
    /\ NewPlayer
    /\ interned = FALSE

NextSlicer == SliceSprites

SpecSlicer == InitSlicer /\ [][NextSlicer]_vars

\* Values the clock's tick returns in the game loop.
TickDeltas == {35, 76}

\* The player of Game.main: a spritesheet of four rows of two images named
\* after the four walk animations, the default framerate, then updates of
\* the player with any keys held.
InitPlayer ==
    /\ images = ImageList(8)
    /\ names = <<"walk_left", "walk_right", "walk_up", "walk_down">>
    /\ width = 2
    /\ spritecounts \in {None, Some(<<2, 2, 1, 2>>)}
    /\ framerate = DefaultFramerate
    /\ named = None
    /\ NoAnimator
    /\ NoSlicer
    /\ NewPlayer
    /\ interned \in BOOLEAN

NextPlayer ==
    \/ NameSprites
    \/ Construct
    \/ StartWalk
    \/ StopWalk
    \/ \E time_delta \in TickDeltas : UpdateObject(time_delta)
    \/ \E keys_pressed \in SUBSET Keys, time_delta \in TickDeltas :
           UpdatePlayer(keys_pressed, time_delta)

SpecPlayer == InitPlayer /\ [][NextPlayer]_vars

\* ------------------------------------------------------------ properties
\* The sum of a sequence of integers.
RECURSIVE SumSeq(_)
SumSeq(s) == IF Len(s) = 0 THEN 0 ELSE s[1] + SumSeq(Tail(s))

\* An animation is playing on the live Animator, with a frame period > 0.
Playing ==
    animator = "live" /\ Truthy(playing) /\ miliseconds_per_frame > 0

\* C1: Animator.update is frame-rate independent. While an animation of L
\* frames plays with frame period P > 0, after the update calls d1..dn made
\* since the animation was started, current_frame = ((d1+...+dn) div P) mod L
\* and time_transpired = (d1+...+dn) mod P, and the n-th update returned the
\* frame at that index. With L = 4 and P = 100 the calls update(250),
\* update(40), update(110) give the indices 2, 2, 0 and carry 50, 90, 0.
C1_FrameRateIndependent ==
    Playing =>
        LET total == SumSeq(history)
            L == Len(playing[1])
            P == miliseconds_per_frame
        IN  /\ current_frame = (total \div P) % L
            /\ time_transpired = total % P
            /\ last.op = "update" =>
                   /\ last.raised = NoError
                   /\ last.ret = Some(playing[1][current_frame + 1])
            /\ (L = 4 /\ P = 100 /\ history = <<250>>) =>
                   (current_frame = 2 /\ time_transpired = 50)
            /\ (L = 4 /\ P = 100 /\ history = <<250, 40>>) =>
                   (current_frame = 2 /\ time_transpired = 90)
            /\ (L = 4 /\ P = 100 /\ history = <<250, 40, 110>>) =>
                   (current_frame = 0 /\ time_transpired = 0)

\* C1's case: the spec's example run, at its third update.
C1_Witness ==
    /\ Playing
    /\ Len(playing[1]) = 4
    /\ miliseconds_per_frame = 100
    /\ history = <<250, 40, 110>>
    /\ last.op = "update"
    /\ last.before.current_frame = 2
    /\ last.before.time_transpired = 90
    /\ current_frame = 0
    /\ last.ret = Some(playing[1][1])

\* The last call was play(name) for a key of the AnimationSet.
PlayedKnown ==
    /\ animator = "live"
    /\ last.op = "play"
    /\ last.arg # None
    /\ last.arg[1] \in DOMAIN animations

\* C2: play(x) made while x is the name of the playing animation changes
\* none of current_animation, playing, current_frame and time_transpired.
C2_ReplayIsNoOp ==
    (PlayedKnown /\ last.arg = last.before.current_animation) =>
        Fields = last.before

\* C3: play(name) for a known name other than the playing one (also from
\* Idle, and also for a name that played earlier) selects name and its frames
\* with current_frame = 0 and time_transpired = 0.
C3_PlayOtherRestarts ==
    (PlayedKnown /\ last.arg # last.before.current_animation) =>
        /\ last.raised = NoError
        /\ current_animation = last.arg
        /\ playing = Some(animations[last.arg[1]])
        /\ current_frame = 0
        /\ time_transpired = 0

\* C3's case: y was playing past its first frame when play("x") was made.
C3_Witness ==
    /\ PlayedKnown
    /\ last.arg = Some("x")
    /\ last.before.current_animation = Some("y")
    /\ last.before.current_frame > 0
    /\ last.before.time_transpired > 0
    /\ current_animation = Some("x")
    /\ current_frame = 0

\* The last call was play(name) for a name that is no key.
PlayedUnknown ==
    /\ animator = "live"
    /\ last.op = "play"
    /\ last.arg # None
    /\ last.arg[1] \notin DOMAIN animations

\* C4: play(name) for a name that is no key of the AnimationSet raises the
\* unknown-name error and leaves every field as it was, Idle or Playing.
C4_UnknownNameFails ==
    PlayedUnknown =>
        /\ last.raised = ErrUnknownAnimation
        /\ Fields = last.before

\* C4's case: the unknown name was played in the middle of an animation.
C4_Witness ==
    /\ PlayedUnknown
    /\ last.arg = Some(UnknownName)
    /\ last.raised = ErrUnknownAnimation
    /\ current_animation = Some("x")
    /\ current_frame > 0
    /\ time_transpired > 0

\* The last call was play(None).
PlayedNone == animator = "live" /\ last.op = "play" /\ last.arg = None

\* C5, as claimed: after play(None) current_animation is None and
\* current_frame and time_transpired are both 0.
C5_StopClearsPosition ==
    PlayedNone =>
        /\ current_animation = None
        /\ current_frame = 0
        /\ time_transpired = 0

\* C5, amended: after play(None) current_animation and playing are None,
\* and current_frame and time_transpired are what they were before the call.
C5_StopKeepsPosition ==
    PlayedNone =>
        /\ last.raised = NoError
        /\ current_animation = None
        /\ playing = None
        /\ current_frame = last.before.current_frame
        /\ time_transpired = last.before.time_transpired

\* C5's case: play(None) was made in the middle of an animation.
C5_Witness ==
    /\ PlayedNone
    /\ last.before.current_animation = Some("x")
    /\ current_animation = None
    /\ current_frame = 2
    /\ time_transpired = 50

\* C6: an update made while the Animator is Idle (just constructed, or after
\* play(None)) returns None and changes no field, so the Animator stays Idle
\* over any number of updates.
C6_IdleUpdate ==
    (animator = "live" /\ last.op = "update" /\ ~Truthy(last.before.playing)) =>
        /\ last.raised = NoError
        /\ last.ret = None
        /\ Fields = last.before

\* C6's case: an update made after play(None) stopped an animation midway.
C6_Witness ==
    /\ animator = "live"
    /\ last.op = "update"
    /\ last.arg = Some(250)
    /\ last.before.playing = None
    /\ last.ret = None
    /\ current_frame > 0
    /\ time_transpired > 0

\* The Namer was called and returned a dict.
NamerReturned == named # None /\ named[1].raised = NoError

\* C7: constructing an Animator from an AnimationSet with a sequence of no
\* frames raises the empty-animation error whatever the other sequences are,
\* and no Animator is produced; the AnimationSets here are the Namer's.
C7_EmptySequenceRejected ==
    (/\ NamerReturned
     /\ animator # "absent"
     /\ \E k \in DOMAIN named[1].animations : Len(named[1].animations[k]) = 0) =>
        /\ animator = "failed"
        /\ last.op = "__init__"
        /\ last.raised = ErrEmptyAnimation
        /\ animations = [k \in {} |-> <<>>]
        /\ playing = None

\* C7's case: a count of 0 gave one empty sequence beside a non-empty one.
C7_Witness ==
    /\ NamerReturned
    /\ animator = "failed"
    /\ spritecounts # None
    /\ \E i \in 1..Len(names) : spritecounts[1][i] = 0
    /\ \E k \in DOMAIN named[1].animations : Len(named[1].animations[k]) = 0
    /\ \E k \in DOMAIN named[1].animations : Len(named[1].animations[k]) > 0

\* The count the Namer uses for each name: width when none was supplied.
CountsUsed ==
    IF spritecounts = None THEN [i \in 1..Len(names) |-> width]
    ELSE spritecounts[1]

\* The images of row i (from 0) the claim gives to names[i].
RowSlice(i) == PySlice(images, i * width, (i * width) + CountsUsed[i + 1])

\* C8, as claimed: for every accepted input and every i, the sequence
\* returned for names[i] is images[i*width : i*width + count[i]].
C8_EveryNameGetsItsRow ==
    NamerReturned =>
        \A i \in 1..Len(names) :
            named[1].animations[names[i]] = RowSlice(i - 1)

\* C8, amended: for every accepted input the dict's keys are the names, and
\* the sequence returned for names[i] is images[i*width : i*width + count[i]]
\* for every i whose name does not occur again later in names; names = [x, y],
\* width = 3, counts = [2, 3] and six images give x = [f0, f1], y = [f3, f4, f5].
C8_LastRowOfEachName ==
    NamerReturned =>
        /\ DOMAIN named[1].animations = {names[i] : i \in 1..Len(names)}
        /\ \A i \in 1..Len(names) :
               (\A j \in (i + 1)..Len(names) : names[j] # names[i]) =>
                   named[1].animations[names[i]] = RowSlice(i - 1)
        /\ (/\ names = <<"x", "y">>
            /\ width = 3
            /\ spritecounts = Some(<<2, 3>>)
            /\ images = <<0, 1, 2, 3, 4, 5>>) =>
               /\ named[1].animations["x"] = <<0, 1>>
               /\ named[1].animations["y"] = <<3, 4, 5>>

\* C8's case: the spec's example.
C8_Witness ==
    /\ NamerReturned
    /\ names = <<"x", "y">>
    /\ width = 3
    /\ spritecounts = Some(<<2, 3>>)
    /\ Len(images) = 6
    /\ named[1].animations["x"] = <<0, 1>>
    /\ named[1].animations["y"] = <<3, 4, 5>>

\* C9: whenever len(names) > len(images) div width the Namer raises the
\* too-many-names error and builds no dict, whatever spritecounts is.
C9_TooManyNamesRejected ==
    (named # None /\ Len(names) > Len(images) \div width) =>
        /\ named[1].raised = ErrTooManyNames
        /\ DOMAIN named[1].animations = {}
        /\ animator = "absent"

\* C9's case: two names for the single full row of three images, width 2.
C9_Witness ==
    /\ named # None
    /\ named[1].raised = ErrTooManyNames
    /\ Len(names) = 2
    /\ Len(images) = 3
    /\ width = 2
    /\ spritecounts # None

\* spritecounts was supplied with fewer entries than names, and the names fit
\* the rows.
FewerCountsThanNames ==
    /\ named # None
    /\ ~(Len(names) > Len(images) \div width)
    /\ spritecounts # None
    /\ Len(spritecounts[1]) < Len(names)

\* C10, as claimed: with fewer counts than names the Namer raises the
\* fewer-spritecounts error, also for the empty list and when every count
\* exceeds width.
C10_FewerCountsError ==
    FewerCountsThanNames => named[1].raised = ErrFewerCounts

\* C10, amended: with fewer counts than names the Namer raises and returns
\* no dict; the error is the fewer-spritecounts error when some count is
\* <= width, and the counts-exceed-width error when every count exceeds width,
\* which includes the empty list.
C10_FewerCountsRejected ==
    FewerCountsThanNames =>
        /\ DOMAIN named[1].animations = {}
        /\ animator = "absent"
        /\ named[1].raised =
               IF \E k \in 1..Len(spritecounts[1]) : spritecounts[1][k] <= width
               THEN ErrFewerCounts ELSE ErrCountsExceedWidth

\* C10's case: one count, within width, for two names.
C10_Witness ==
    /\ FewerCountsThanNames
    /\ Len(names) = 2
    /\ Len(spritecounts[1]) = 1
    /\ spritecounts[1][1] <= width
    /\ named[1].raised = ErrFewerCounts

\* The cells of the grid that fit entirely inside the sheet, along one axis:
\* the corners start + c * (cell + padding) with corner + cell <= extent.
FullCells(start, extent, cell, padding) ==
    IF extent - start < cell THEN <<>>
    ELSE [k \in 1..(((extent - start - cell) \div (cell + padding)) + 1) |->
             start + (k - 1) * (cell + padding)]

\* The top-left corners of the full cells, in row-major order.
FullCellCorners ==
    LET xs == FullCells(sheet.starting_coords[1], sheet.w,
                        sheet.size[1], sheet.padding)
        ys == FullCells(sheet.starting_coords[2], sheet.h,
                        sheet.size[2], sheet.padding)
        nc == Len(xs)
    IN  [k \in 1..(Len(ys) * nc) |->
            <<xs[((k - 1) % nc) + 1], ys[((k - 1) \div nc) + 1]>>]

\* C11: the Slicer returns one image for exactly the grid cells that fit
\* entirely inside the sheet, in row-major order, so the number of images
\* is the number of full cells that fit.
C11_FullCellsOnly ==
    sliced # None =>
        /\ Len(sliced[1]) = Len(FullCellCorners)
        /\ \A k \in 1..Len(sliced[1]) :
               <<sliced[1][k].rect.left, sliced[1][k].rect.top>>
                   = FullCellCorners[k]

\* C17: every cell the Slicer extracts is a rectangle of exactly
\* size = (width, height) at the visited corner, square or not.
C17_ExactFrameSize ==
    sliced # None =>
        \A k \in 1..Len(sliced[1]) :
            /\ sliced[1][k].rect.w = sheet.size[1]
            /\ sliced[1][k].rect.h = sheet.size[2]

\* C13: whenever an animation is playing, 0 <= current_frame < the number
\* of its frames and 0 <= time_transpired < miliseconds_per_frame.
C13_PlayingInRange ==
    (animator = "live" /\ Truthy(playing)) =>
        /\ 0 <= current_frame
        /\ current_frame < Len(playing[1])
        /\ 0 <= time_transpired
        /\ time_transpired < miliseconds_per_frame

\* C14: for every positive framerate the constructor accepts,
\* miliseconds_per_frame = 1000 div framerate and is positive, so update's
\* division and modulo by it never fail.
C14_PeriodPositive ==
    animator = "live" =>
        /\ miliseconds_per_frame = 1000 \div framerate
        /\ miliseconds_per_frame > 0
        /\ last.raised # ErrZeroDivision

\* C15: whenever the Namer returns a dict for supplied spritecounts, every
\* count it used is <= width, so the images of row i all lie in
\* [i*width, (i+1)*width) and no image is given to two rows.
C15_CountsWithinRow ==
    (NamerReturned /\ spritecounts # None) =>
        \A i \in 1..Len(names) :
            /\ spritecounts[1][i] <= width
            /\ \A k \in 1..Len(RowSlice(i - 1)) :
                   /\ (i - 1) * width <= RowSlice(i - 1)[k]
                   /\ RowSlice(i - 1)[k] < i * width

\* C16, as claimed: every dict the Namer returns has len(names) entries.
C16_OneEntryPerPosition ==
    NamerReturned => Cardinality(DOMAIN named[1].animations) = Len(names)

\* C16, amended: every dict the Namer returns has one entry for each
\* distinct name, which is len(names) entries when no name is repeated.
C16_OneEntryPerName ==
    NamerReturned =>
        /\ Cardinality(DOMAIN named[1].animations)
               = Cardinality({names[i] : i \in 1..Len(names)})
        /\ (\A i, j \in 1..Len(names) : names[i] = names[j] => i = j) =>
               Cardinality(DOMAIN named[1].animations) = Len(names)

\* C16's case: two distinct names, one of them with no frame.
C16_Witness ==
    /\ NamerReturned
    /\ names = <<"x", "y">>
    /\ spritecounts = Some(<<0, 2>>)
    /\ Cardinality(DOMAIN named[1].animations) = 2

\* The last step was a Player.update that returned.
PlayerTicked == tick.op = "Player.update" /\ tick.raised = NoError

\* 1 when the key was held in the last update, else 0.
Held(key) == IF key \in tick.keys THEN 1 ELSE 0

\* The rect after the last Player.update when each held key moved it by
\* pixels along its axis: "a" and "d" along x, "w" and "s" along y.
MovedBy(pixels) ==
    /\ rect.x = tick.before.rect.x + (pixels * (Held("d") - Held("a")))
    /\ rect.y = tick.before.rect.y + (pixels * (Held("s") - Held("w")))

\* C12, as claimed: each held key moves the rect by
\* round(speed * time_delta / 1000) pixels along its axis.
C12_MovesRounded ==
    PlayerTicked =>
        MovedBy(((2 * PlayerSpeed * tick.time_delta) + 1000) \div 2000)

\* C12, amended: each held key moves the rect by
\* floor(speed * time_delta / 1000) pixels along its axis; "a" alone held for
\* time_delta = 76 moves it 19 pixels west and sets facing = WEST.
C12_MovesFloored ==
    PlayerTicked =>
        /\ MovedBy((PlayerSpeed * tick.time_delta) \div 1000)
        /\ (tick.keys = {"a"} /\ tick.time_delta = 76) =>
               /\ rect.x = tick.before.rect.x - 19
               /\ rect.y = tick.before.rect.y
               /\ facing = "WEST"

\* C12's case: "a" alone held for 35 ms, where 8.75 pixels floor to 8.
C12_Witness ==
    /\ PlayerTicked
    /\ tick.keys = {"a"}
    /\ tick.time_delta = 35
    /\ rect.x = tick.before.rect.x - 8
    /\ facing = "WEST"

\* The frame Animator.update returns for the last update of a game object,
\* computed from the fields the call started from.
FrameDue ==
    LET f == tick.before.fields
        t == f.time_transpired + tick.time_delta
        index == IF t >= miliseconds_per_frame
                 THEN (f.current_frame + (t \div miliseconds_per_frame))
                          % Len(f.playing[1])
                 ELSE f.current_frame
    IN  f.playing[1][index + 1]

\* C18: GameObject.update replaces the image displayed only by a frame the
\* Animator returned; with no Animator attached or nothing playing the image
\* stays what it was, and it is never None.
C18_ImageOnlyFromFrame ==
    /\ image # NoImage
    /\ (tick.op # "none" /\ tick.raised = NoError) =>
           IF animator = "live" /\ Truthy(tick.before.fields.playing)
           THEN image = FrameImage(FrameDue)
           ELSE image = tick.before.image

\* C18's case: after play(None) a second update in a row leaves the frame
\* displayed before in place.
C18_Witness ==
    /\ tick.op = "GameObject.update"
    /\ animator = "live"
    /\ tick.before.fields.playing = None
    /\ playing = None
    /\ image.surface = "frame"
    /\ image = tick.before.image
    /\ ticks = 2

\* The facing of the last held key when the keys are tested in the order
\* East, North, West, South.
LastOfEastNorthWestSouth ==
    IF "s" \in tick.keys THEN "SOUTH"
    ELSE IF "a" \in tick.keys THEN "WEST"
    ELSE IF "w" \in tick.keys THEN "NORTH"
    ELSE "EAST"

\* The facing of the last held key when the keys are tested in the order
\* West, East, North, South.
LastOfWestEastNorthSouth ==
    IF "s" \in tick.keys THEN "SOUTH"
    ELSE IF "w" \in tick.keys THEN "NORTH"
    ELSE IF "d" \in tick.keys THEN "EAST"
    ELSE "WEST"

\* The walk animation of a facing.
WalkAnimation(direction) ==
    CASE direction = "WEST" -> "walk_left"
      [] direction = "EAST" -> "walk_right"
      [] direction = "NORTH" -> "walk_up"
      [] direction = "SOUTH" -> "walk_down"

\* C19, as claimed: with several keys held the keys are tested in the order
\* East, North, West, South, and the last held one gives the facing and the
\* animation selected; East and West together end facing WEST.
C19_OrderEastNorthWestSouth ==
    (PlayerTicked /\ tick.keys # {}) =>
        /\ facing = LastOfEastNorthWestSouth
        /\ current_animation = Some(WalkAnimation(LastOfEastNorthWestSouth))

\* C19, amended: the keys are tested in the order West, East, North, South,
\* and the last held one gives the facing and the animation selected; East
\* and West together end facing EAST.
C19_OrderWestEastNorthSouth ==
    (PlayerTicked /\ tick.keys # {}) =>
        /\ facing = LastOfWestEastNorthSouth
        /\ current_animation = Some(WalkAnimation(LastOfWestEastNorthSouth))
        /\ playing = Some(animations[WalkAnimation(LastOfWestEastNorthSouth)])

\* C19's case: East and West held together.
C19_Witness ==
    /\ PlayerTicked
    /\ tick.keys = {"a", "d"}
    /\ facing = "EAST"
    /\ current_animation = Some("walk_right")

\* The last two steps were Player.update calls with the same keys held, at
\* least one.
SameKeysAgain ==
    /\ PlayerTicked
    /\ tick.keys # {}
    /\ tick.previous_keys = Some(tick.keys)

\* current_frame and time_transpired are what the base update of the last
\* Player.update left.
PositionOfBaseUpdate ==
    LET f == tick.before.fields
        t == f.time_transpired + tick.time_delta
    IN  /\ playing[1][current_frame + 1] = FrameDue
        /\ current_frame =
               IF t >= miliseconds_per_frame
               THEN (f.current_frame + (t \div miliseconds_per_frame))
                        % Len(f.playing[1])
               ELSE f.current_frame
        /\ time_transpired = IF t >= miliseconds_per_frame
                             THEN t % miliseconds_per_frame ELSE t

\* C20, as claimed: when the same keys are held over two updates in a row,
\* the second leaves current_frame and time_transpired as its base update
\* set them, for one key and for several.
C20_HeldKeysKeepPosition ==
    SameKeysAgain => PositionOfBaseUpdate

\* C20, what the code does: when the same single key is held over two
\* updates in a row, the second leaves current_frame and time_transpired as
\* its base update set them; with two or more keys held, every update
\* restarts the last key's animation at current_frame = 0 and
\* time_transpired = 0.
C20_OneKeyKeepsPosition ==
    SameKeysAgain =>
        /\ current_animation = tick.before.fields.current_animation
        /\ IF Cardinality(tick.keys) = 1 THEN PositionOfBaseUpdate
           ELSE current_frame = 0 /\ time_transpired = 0

\* C20's case: "a" held over two updates, the second advancing a frame.
C20_Witness ==
    /\ SameKeysAgain
    /\ tick.keys = {"a"}
    /\ tick.time_delta = 76
    /\ tick.before.fields.current_frame = 0
    /\ current_frame = 1

====
